---------------------------- MODULE Spec2Model ----------------------------
(***************************************************************************)
(* Model of examples/transformer/enwik8.py: the block-sparse causal        *)
(* attention structure (layout + sub-block mask), the fp16 cost-scale      *)
(* update of the training loop, and the minibatch generator iter_data.     *)
(*                                                                         *)
(* Arrays are functions on 0..n-1, as in the source.  The three parts of   *)
(* the script are independent, so each has its own specification           *)
(* (SpecAttn, SpecScale, SpecData) over the same variables.                *)
(***************************************************************************)
EXTENDS Integers, Sequences, FiniteSets

\* ---- bounds of the model ----
MaxTimeBlocks == 4      \* n_timesteps ranges over 64, 128, ..., 64*MaxTimeBlocks
MaxHeads      == 2      \* n_heads ranges over 1..MaxHeads
MaxCostCount  == 2      \* hps.cost_count ranges over -1..MaxCostCount
MaxIters      == 7      \* training iterations modelled
MaxSize       == 7      \* X.size ranges over 0..MaxSize
MaxTimesteps  == 2      \* iter_data: n_timesteps ranges over 1..MaxTimesteps
MaxBatch      == 2      \* n_batch ranges over 1..MaxBatch
MaxMpi        == 2      \* mpi_size ranges over 1..MaxMpi

\* ---- program constants ----
blocksize == 64

VARIABLES
    \* attention structure
    pc,             \* position in the part of the script being modelled
    n_timesteps,    \* hps.n_timesteps
    n_heads,        \* hps.n_head
    layout,         \* coarse structure: [<<q_blk, k_blk>> -> BOOLEAN]
    head_idx,       \* arguments of the last mask callback
    query_idx,
    key_idx,
    mask,           \* result of the last mask callback: [<<q, k>> -> BOOLEAN]
    \* training loop
    hps_cost_count, \* hps.cost_count
    cur_cost_scale, \* a positive float m * 2^e, held as [m |-> m, e |-> e]
    cost_count,
    norm_scale,     \* norm_scale returned by the last sess.run
    iteration,
    \* history of the training loop (observations, not program state)
    last_update,    \* branch taken by the last iteration
    prev_cost_count,\* cost_count before the last iteration
    prev_cost_scale,\* cur_cost_scale before the last iteration
    clean_iters,    \* iterations with norm_scale != 0 since cur_cost_scale last changed
    doubled_after,  \* clean_iters, the doubling iteration included, at the last doubling
    \* iter_data
    X,              \* the byte array, [0..X.size-1 -> 0..255]
    n_batch,
    mpi_rank,
    mpi_size,
    offset,
    n_candidates,   \* idxs.size before the truncation
    length,
    idxs,           \* after the reshape: [k -> [rank -> [i -> start index]]]
    minibatch_index,
    x,              \* the pair last yielded: x[:, :-1]
    y,              \*                        x[:, 1:]
    n_yielded       \* number of pairs yielded so far

attn_vars  == <<n_heads, layout, head_idx, query_idx, key_idx, mask>>
scale_vars == <<hps_cost_count, cur_cost_scale, cost_count, norm_scale, iteration,
                last_update, prev_cost_count, prev_cost_scale, clean_iters, doubled_after>>
data_vars  == <<X, n_batch, mpi_rank, mpi_size, offset, n_candidates, length, idxs,
                minibatch_index, x, y, n_yielded>>
vars == <<pc, n_timesteps, attn_vars, scale_vars, data_vars>>

\* values of the variables of the parts a specification does not model
AttnIdle  == /\ n_heads = 0 /\ layout = << >> /\ mask = << >>
             /\ head_idx = 0 /\ query_idx = 0 /\ key_idx = 0
ScaleIdle == /\ hps_cost_count = 0 /\ cur_cost_scale = [m |-> 1, e |-> 0]
             /\ cost_count = 0 /\ norm_scale = 1 /\ iteration = 0
             /\ last_update = "none" /\ prev_cost_count = 0
             /\ prev_cost_scale = [m |-> 1, e |-> 0]
             /\ clean_iters = 0 /\ doubled_after = 0
DataIdle  == /\ X = << >> /\ n_batch = 0 /\ mpi_rank = 0 /\ mpi_size = 0
             /\ offset = 0 /\ n_candidates = 0 /\ length = 0 /\ idxs = << >>
             /\ minibatch_index = 0 /\ x = << >> /\ y = << >> /\ n_yielded = 0

-----------------------------------------------------------------------------
\* np.ndindex(shape): every index tuple of a 2-d shape
ndindex(shape) == (0 .. shape[1] - 1) \X (0 .. shape[2] - 1)

\* causal_subblock_mask with the test k >= q: a position may not attend to itself
causal_subblock_mask_strict(blk_shape, head, q_idx, k_idx, blk_idx) ==
    [qk \in ndindex(blk_shape) |->
        IF q_idx = k_idx /\ qk[2] >= qk[1] THEN FALSE ELSE TRUE]

\* causal_subblock_mask: all ones, except that on a diagonal block
\* (query_idx == key_idx) the entries with k > q are cleared.
causal_subblock_mask(blk_shape, head, q_idx, k_idx, blk_idx) ==
    [qk \in ndindex(blk_shape) |->
        IF q_idx = k_idx /\ qk[2] > qk[1] THEN FALSE ELSE TRUE]

\* the layout built by get_blocksparse_attention_ops: all ones, then the
\* blocks with k_idx > q_idx cleared.
BuildLayout(n_ts) ==
    LET n_time_blocks == n_ts \div blocksize
    IN  [qk \in ndindex(<<n_time_blocks, n_time_blocks>>) |->
            IF qk[2] > qk[1] THEN FALSE ELSE TRUE]

InitAttn ==
    /\ pc = "attn_start"
    /\ n_timesteps \in {blocksize * b : b \in 1 .. MaxTimeBlocks}
    /\ n_heads \in 1 .. MaxHeads
    /\ layout = << >>
    /\ head_idx = 0 /\ query_idx = 0 /\ key_idx = 0
    /\ mask = << >>
    /\ ScaleIdle
    /\ DataIdle

\* get_blocksparse_attention_ops(n_timesteps, n_heads)
get_blocksparse_attention_ops ==
    /\ pc = "attn_start"
    /\ layout' = BuildLayout(n_timesteps)
    /\ pc' = "attn_ops"
    /\ UNCHANGED <<n_timesteps, n_heads, head_idx, query_idx, key_idx, mask, scale_vars, data_vars>>

\* one invocation of mask_callback = causal_subblock_mask on a block of the
\* layout, for some head
MaskCallback ==
    /\ pc \in {"attn_ops", "attn_mask"}
    /\ \E h \in 0 .. n_heads - 1 :
       \E qk \in DOMAIN layout :
          /\ head_idx' = h
          /\ query_idx' = qk[1]
          /\ key_idx' = qk[2]
          /\ mask' = causal_subblock_mask(<<blocksize, blocksize>>, h, qk[1], qk[2], 0)
    /\ pc' = "attn_mask"
    /\ UNCHANGED <<n_timesteps, n_heads, layout, scale_vars, data_vars>>

NextAttn == get_blocksparse_attention_ops \/ MaskCallback

SpecAttn == InitAttn /\ [][NextAttn]_vars

\* absolute positions q, k of the sequence lying in block (query_idx, key_idx)
PosOfBlock(b) == b * blocksize .. b * blocksize + blocksize - 1

\* the pair (q, k) of absolute positions is attendable
Attendable(q, k) ==
    /\ layout[<<q \div blocksize, k \div blocksize>>]
    /\ mask[<<q % blocksize, k % blocksize>>]

\* C1 witness: masks of a diagonal block and of a block below the diagonal
C1_Witness ==
    /\ pc = "attn_mask" /\ query_idx = key_idx /\ query_idx > 0
    /\ Attendable(query_idx * blocksize + 5, key_idx * blocksize + 5)
    /\ ~Attendable(query_idx * blocksize + 5, key_idx * blocksize + 6)

\* C1: once the mask of a block has been produced, every pair of absolute
\* positions (q, k) of that block is attendable (layout bit of the block set
\* and mask bit of the pair set) if and only if k <= q.
C1_Causal ==
    pc = "attn_mask" =>
        \A q \in PosOfBlock(query_idx) : \A k \in PosOfBlock(key_idx) :
            Attendable(q, k) <=> k <= q

-----------------------------------------------------------------------------
\* The training loop's cost-scale update.  cur_cost_scale is a binary float
\* m * 2^e; multiplying by 0.5 or 2.0 is exact and moves the exponent.

\* 2^n for n >= 0
RECURSIVE Pow2(_)
Pow2(n) == IF n <= 0 THEN 1 ELSE 2 * Pow2(n - 1)

\* cur_cost_scale *= 0.5
Halve(s) == [s EXCEPT !.e = s.e - 1]

\* cur_cost_scale *= 2.0
Double(s) == [s EXCEPT !.e = s.e + 1]

\* a < b on floats m * 2^e (compared at the smaller exponent)
FLess(a, b) ==
    LET lo == IF a.e < b.e THEN a.e ELSE b.e
    IN  a.m * Pow2(a.e - lo) < b.m * Pow2(b.e - lo)

\* a = b on floats m * 2^e
FEq(a, b) == ~FLess(a, b) /\ ~FLess(b, a)

\* the update with the doubling test ahead of the saturation test
Branch_DoubleFirst(ns, count, limit) ==
    IF count >= limit THEN "double"
    ELSE IF ns = 0 THEN "halve"
    ELSE "count"

\* the update with the test cost_count > hps.cost_count
Branch_StrictLimit(ns, count, limit) ==
    IF ns = 0 THEN "halve"
    ELSE IF count > limit THEN "double"
    ELSE "count"

\* the branch of the if / elif / else taken for a returned norm_scale
Branch(ns, count, limit) ==
    IF ns = 0 THEN "halve"
    ELSE IF count >= limit THEN "double"
    ELSE "count"

\* values of hps.cost_scale: positive floats, the default 2^16 among them
CostScales == {[m |-> m, e |-> e] : m \in {1, 3}, e \in {0, 16}}

\* norm_scale values sess.run may return: 0 on inf/nan, non-zero otherwise
NormScales == 0 .. 1

InitScale ==
    /\ pc = "train"
    /\ n_timesteps = 0
    /\ AttnIdle
    /\ DataIdle
    /\ hps_cost_count \in -1 .. MaxCostCount
    /\ cur_cost_scale \in CostScales
    /\ cost_count = 0
    /\ norm_scale = 1
    /\ iteration = 0
    /\ last_update = "none"
    /\ prev_cost_count = 0
    /\ prev_cost_scale = cur_cost_scale
    /\ clean_iters = 0
    /\ doubled_after = 0

\* one iteration of the training loop: sess.run returns norm_scale, then the
\* cost scale is updated and the iteration counter advanced
TrainIter ==
    /\ pc = "train"
    /\ iteration < MaxIters
    /\ \E ns \in NormScales :
        LET br == Branch(ns, cost_count, hps_cost_count) IN
        /\ norm_scale' = ns
        /\ cur_cost_scale' = CASE br = "halve"  -> Halve(cur_cost_scale)
                               [] br = "double" -> Double(cur_cost_scale)
                               [] OTHER         -> cur_cost_scale
        /\ cost_count' = IF br = "count" THEN cost_count + 1 ELSE 0
        /\ last_update' = br
    /\ iteration' = iteration + 1
    /\ prev_cost_count' = cost_count
    /\ prev_cost_scale' = cur_cost_scale
    \* observations of the run
    /\ clean_iters' = IF ~FEq(cur_cost_scale', cur_cost_scale) THEN 0
                      ELSE clean_iters + 1
    /\ doubled_after' = IF FEq(cur_cost_scale', Double(cur_cost_scale))
                        THEN clean_iters + 1 ELSE doubled_after
    /\ UNCHANGED <<pc, n_timesteps, attn_vars, data_vars, hps_cost_count>>

NextScale == TrainIter

SpecScale == InitScale /\ [][NextScale]_vars

\* C2: an iteration whose norm_scale is 0 halves cur_cost_scale and resets
\* cost_count to 0 whatever cost_count was; an iteration whose norm_scale is
\* not 0 never decreases cur_cost_scale.
C2_DropOnSaturation ==
    iteration > 0 =>
        /\ norm_scale = 0 =>
              /\ FEq(cur_cost_scale, Halve(prev_cost_scale))
              /\ FLess(cur_cost_scale, prev_cost_scale)
              /\ cost_count = 0
        /\ norm_scale # 0 => ~FLess(cur_cost_scale, prev_cost_scale)

\* C2 witness: saturation hit an iteration that would otherwise have doubled
C2_Witness ==
    /\ iteration > 0 /\ norm_scale = 0
    /\ hps_cost_count > 0 /\ prev_cost_count >= hps_cost_count
    /\ cost_count = 0

\* the largest of two integers
Max(a, b) == IF a > b THEN a ELSE b

\* C3 as stated, for a positive hps.cost_count: at a doubling, the iterations
\* without saturation since the last change of cur_cost_scale, the doubling
\* one included, number exactly hps.cost_count.
C3_Original ==
    (last_update = "double" /\ hps_cost_count > 0) =>
        doubled_after = hps_cost_count /\ cost_count = 0

\* C3 amended: at a doubling, the iterations without saturation since the
\* last change of cur_cost_scale, the doubling one included, number exactly
\* max(hps.cost_count, 0) + 1, and cost_count is reset to 0.
C3_DoubleAfter ==
    last_update = "double" =>
        /\ doubled_after = Max(hps_cost_count, 0) + 1
        /\ cost_count = 0

\* C3 witness: a doubling after a positive hps.cost_count of counted iterations
C3_Witness ==
    /\ last_update = "double" /\ hps_cost_count = MaxCostCount
    /\ doubled_after = MaxCostCount + 1

-----------------------------------------------------------------------------
\* iter_data: the minibatch generator.

\* number of elements of an array
Size(a) == Cardinality(DOMAIN a)

\* np.arange(start, stop, step), step > 0
arange(start, stop, step) ==
    LET n == IF stop > start THEN (stop - start + step - 1) \div step ELSE 0
    IN  [i \in 0 .. n - 1 |-> start + i * step]

\* a[lo:hi] for 0 <= lo: the slice stops at the end of the array
Slice(a, lo, hi) ==
    LET top == IF hi < Size(a) THEN hi ELSE Size(a)
    IN  [i \in 0 .. top - lo - 1 |-> a[lo + i]]

\* all orderings of a set, as sequences
RECURSIVE Orderings(_)
Orderings(S) ==
    IF S = {} THEN {<< >>}
    ELSE UNION {{<<e>> \o p : p \in Orderings(S \ {e})} : e \in S}

\* the possible results of np.random.permutation(a)
permutation(a) ==
    {[i \in DOMAIN a |-> a[p[i + 1]]] : p \in Orderings(DOMAIN a)}

\* the values np.random.randint(lo, hi) may return
randint(lo, hi) == lo .. hi - 1

\* the truncation left out
TruncLength_None(size, sequences_per_batch) == size

\* length = (idxs.size // sequences_per_batch) * sequences_per_batch
TruncLength(size, sequences_per_batch) ==
    (size \div sequences_per_batch) * sequences_per_batch

\* flat.reshape([-1, d1, d2]): a ValueError unless d1 * d2 divides the size
CanReshape(flat, d1, d2) == Size(flat) % (d1 * d2) = 0

Reshape(flat, d1, d2) ==
    [k \in 0 .. (Size(flat) \div (d1 * d2)) - 1 |->
        [r \in 0 .. d1 - 1 |->
            [i \in 0 .. d2 - 1 |-> flat[(k * d1 + r) * d2 + i]]]]

\* x[i, :] = v on a row of row_len elements: v is copied, a single element
\* is broadcast, any other size is a ValueError
CanAssign(row_len, v) == Size(v) = row_len \/ Size(v) = 1

AssignRow(row_len, v) ==
    IF Size(v) = row_len THEN v ELSE [t \in 0 .. row_len - 1 |-> v[0]]

\* x[:, :-1]
DropLast(a) == [i \in DOMAIN a |-> Slice(a[i], 0, Size(a[i]) - 1)]

\* the target taken unshifted
DropFirst_NoShift(a) == DropLast(a)

\* x[:, 1:]
DropFirst(a) == [i \in DOMAIN a |-> Slice(a[i], 1, Size(a[i]))]

\* contents of the byte array: a ramp and a square wave
DataSeeds == {1, 128}
Bytes(size, seed) == [i \in 0 .. size - 1 |-> (seed * (i + 1)) % 256]

InitData ==
    /\ pc = "data_call"
    /\ AttnIdle
    /\ ScaleIdle
    /\ \E size \in 0 .. MaxSize : \E seed \in DataSeeds : X = Bytes(size, seed)
    /\ n_timesteps \in 1 .. MaxTimesteps
    /\ n_batch \in 1 .. MaxBatch
    /\ mpi_size \in 1 .. MaxMpi
    /\ mpi_rank \in 0 .. mpi_size - 1
    /\ offset = 0 /\ n_candidates = 0 /\ length = 0 /\ idxs = << >>
    /\ minibatch_index = 0 /\ x = << >> /\ y = << >> /\ n_yielded = 0

\* the call of iter_data up to the loop: offset, permuted starting indices,
\* truncation and reshape
IterDataStart ==
    /\ pc = "data_call"
    /\ \E off \in randint(0, n_timesteps) :
       \E perm \in permutation(arange(off, Size(X) - (n_timesteps + 1), n_timesteps)) :
          LET sequences_per_batch == mpi_size * n_batch
              len   == TruncLength(Size(perm), sequences_per_batch)
              trunc == Slice(perm, 0, len)
          IN  /\ offset' = off
              /\ n_candidates' = Size(perm)
              /\ length' = len
              /\ IF CanReshape(trunc, mpi_size, n_batch)
                 THEN /\ idxs' = Reshape(trunc, mpi_size, n_batch)
                      /\ pc' = "data_loop"
                 ELSE /\ idxs' = trunc
                      /\ pc' = "data_error"
    /\ UNCHANGED <<n_timesteps, attn_vars, scale_vars, X, n_batch, mpi_rank, mpi_size,
                   minibatch_index, x, y, n_yielded>>

\* one turn of the loop: fill x from the starting indices of this rank and
\* yield (x[:, :-1], x[:, 1:])
IterDataYield ==
    /\ pc = "data_loop"
    /\ minibatch_index < Size(idxs)
    /\ LET starting_indices == idxs[minibatch_index][mpi_rank]
           zeros == [t \in 0 .. n_timesteps |-> 0]
           piece(i) == Slice(X, starting_indices[i], starting_indices[i] + n_timesteps + 1)
           full  == [i \in 0 .. n_batch - 1 |->
                        IF i \in DOMAIN starting_indices
                        THEN AssignRow(n_timesteps + 1, piece(i))
                        ELSE zeros]
       IN  IF \A i \in DOMAIN starting_indices :
                  i < n_batch /\ CanAssign(n_timesteps + 1, piece(i))
           THEN /\ x' = DropLast(full)
                /\ y' = DropFirst(full)
                /\ n_yielded' = n_yielded + 1
                /\ minibatch_index' = minibatch_index + 1
                /\ pc' = "data_loop"
           ELSE /\ pc' = "data_error"
                /\ UNCHANGED <<x, y, n_yielded, minibatch_index>>
    /\ UNCHANGED <<n_timesteps, attn_vars, scale_vars, X, n_batch, mpi_rank, mpi_size,
                   offset, n_candidates, length, idxs>>

\* the loop is exhausted: the generator returns
IterDataReturn ==
    /\ pc = "data_loop"
    /\ minibatch_index >= Size(idxs)
    /\ pc' = "data_done"
    /\ UNCHANGED <<n_timesteps, attn_vars, scale_vars, data_vars>>

NextData == IterDataStart \/ IterDataYield \/ IterDataReturn

SpecData == InitData /\ [][NextData]_vars

\* C4: every yielded pair (x, y) has shape n_batch x n_timesteps, and every
\* row i is read inside X at some start s with s + n_timesteps + 1 <= X.size:
\* x[i,t] = X[s+t] and y[i,t] = X[s+t+1] for every t.
C4_NextBytePairs ==
    n_yielded > 0 =>
        /\ DOMAIN x = 0 .. n_batch - 1
        /\ DOMAIN y = 0 .. n_batch - 1
        /\ \A i \in 0 .. n_batch - 1 :
              /\ DOMAIN x[i] = 0 .. n_timesteps - 1
              /\ DOMAIN y[i] = 0 .. n_timesteps - 1
              /\ \E s \in 0 .. Size(X) :
                    /\ s + n_timesteps + 1 <= Size(X)
                    /\ \A t \in 0 .. n_timesteps - 1 :
                          x[i][t] = X[s + t] /\ y[i][t] = X[s + t + 1]

\* C4 witness: a pair of several rows and several timesteps was yielded
C4_Witness ==
    /\ n_yielded > 0 /\ n_batch > 1 /\ n_timesteps > 1
    /\ x[0] # y[0]

\* C5: with S = mpi_size * n_batch and N candidate starting indices, the
\* number kept is the largest multiple of S not exceeding N (so fewer than S
\* are dropped), the generator yields N div S minibatches, and every
\* minibatch of every rank holds exactly n_batch starting indices.
C5_Truncation ==
    LET S == mpi_size * n_batch
        N == n_candidates
    IN  /\ pc # "data_call" =>
              /\ length % S = 0 /\ length <= N /\ N - length < S
        /\ pc \in {"data_loop", "data_done"} =>
              /\ Size(idxs) * S = length
              /\ \A k \in DOMAIN idxs : \A r \in 0 .. mpi_size - 1 :
                    Size(idxs[k][r]) = n_batch
              /\ n_yielded <= N \div S
        /\ pc = "data_done" => n_yielded = N \div S

\* C5 witness: an epoch that dropped sequences and yielded minibatches ended
C5_Witness ==
    /\ pc = "data_done" /\ n_yielded > 0
    /\ length < n_candidates /\ mpi_size > 1

\* C5 witness of the even case: nothing is dropped when S divides N
C5_WitnessEven ==
    /\ pc = "data_done" /\ n_yielded > 1
    /\ length = n_candidates

=============================================================================
